---- MODULE Spec2Model ----
(***************************************************************************)
(* A model of audit_application.py: the ClinicalAppAuditor (thirteen rule  *)
(* checks appending Issues to a shared AuditResults, the scorer            *)
(* _calculate_results, the fix generator) and the bounded iteration loop   *)
(* of main().                                                              *)
(*                                                                         *)
(* The scanned project is the environment.  It is a record with one field  *)
(* per artifact the checks read; file contents are abstracted to the       *)
(* features the checks' substring and regex tests look for ("marks").      *)
(* Formatted strings are sequences of words, so that an embedded message   *)
(* stays visible in the description that embeds it.                        *)
(***************************************************************************)
EXTENDS Integers, Sequences, FiniteSets, TLC

VARIABLES
    project,      \* the file system and the type checker's behaviour (environment)
    pc,           \* main()'s position
    iteration,    \* main(): iteration
    auditor,      \* auditor.results, the object the checks append to
    results,      \* main(): results, the object run_audit last returned
    trace,        \* the names of the checks executed by the current run_audit call
    fixes,        \* main(): fixes, the list generate_fixes last returned
    runs,         \* how many times run_audit has been called (history)
    fixCalls,     \* how many times generate_fixes has been called (history)
    edited,       \* whether the project changed since the program started (history)
    controller,   \* the controller's state: RUNNING, CONVERGED or EXHAUSTED (history)
    converged_at, \* the first run whose pass rate was >= 100, 0 while none (history)
    lastRun,      \* the results object as the last run_audit call left it (history)
    exitCode      \* the process exit status, -1 while running

vars == <<project, pc, iteration, auditor, results, trace, fixes, runs, fixCalls,
          edited, controller, converged_at, lastRun, exitCode>>

(***************************************************************************)
(* Severity, Issue, AuditResults                                           *)
(***************************************************************************)
Severity == {"CRITICAL", "HIGH", "MEDIUM", "LOW"}

Issue(file_path, line_number, severity, category, description, fix_suggestion) ==
    [file_path |-> file_path, line_number |-> line_number, severity |-> severity,
     category |-> category, description |-> description,
     fix_suggestion |-> fix_suggestion, code_snippet |-> ""]

\* A float is modelled as the exact fraction num/den, den > 0.
Float(n, d) == [num |-> n, den |-> d]

AuditResults ==
    [issues |-> <<>>, total_files_scanned |-> 0, pass_rate |-> Float(0, 1),
     critical_count |-> 0, high_count |-> 0, medium_count |-> 0, low_count |-> 0]

\* Issues are appended to a list; a check maps the list to the extended list.
_add_issue(issues, file_path, line_number, severity, category, description, fix_suggestion) ==
    Append(issues, Issue(file_path, line_number, severity, category, description,
                         fix_suggestion))

(***************************************************************************)
(* Scanned files.  str(path) of a scanned file is written as its path      *)
(* below the root.  A file is [state, err, lines]: state "absent",         *)
(* "unreadable" (open or read raises; err is the exception's text) or      *)
(* "read".  A line is [marks, import, route, query]:                       *)
(*   marks  the substrings and regex hits the checks test for;             *)
(*   import the path of an import ... from '<path>' statement on the line, *)
(*          [prefix, name]: prefix "./" or "../" for a relative path and   *)
(*          "" otherwise, name the last path component split at its last   *)
(*          dot (<<"foo">>, <<"foo", ".service">>); NoImport when none;    *)
(*   route  <<object, method, path>> of a app.get('/x' or router.get('/x'  *)
(*          declaration, path a sequence of segments; <<>> when none;      *)
(*   query  the path of a queryKey: ['/x'] entry; <<>> when none.          *)
(***************************************************************************)
SchemaTs == "shared/schema.ts"
RoutesTs == "server/routes.ts"
AppTsx == "client/src/App.tsx"
StylesCss == "client/src/index.css"

NoImport == [prefix |-> "", name |-> <<>>]

Line(marks) == [marks |-> marks, import |-> NoImport, route |-> <<>>, query |-> <<>>]

Exists(p, f) == p.files[f].state # "absent"

\* Path.rglob over typescript_patterns: the *.ts files in directory-listing order
\* (project.listing), then the *.tsx files; no *.js or *.jsx file is modelled.
TypescriptFiles(p) ==
    SelectSeq(p.listing, LAMBDA f : Exists(p, f))
        \o (IF Exists(p, AppTsx) THEN <<AppTsx>> ELSE <<>>)

\* client_dir.rglob("*.tsx")
ClientTsxFiles(p) == IF Exists(p, AppTsx) THEN <<AppTsx>> ELSE <<>>

\* Path.rglob over style_patterns
StyleFiles(p) == IF Exists(p, StylesCss) THEN <<StylesCss>> ELSE <<>>

\* "/" + "/".join(path)
RECURSIVE PathStr(_)
PathStr(path) == IF path = <<>> THEN "" ELSE "/" \o Head(path) \o PathStr(Tail(path))

\* path.startswith('/api/')
StartsWithApi(path) == Len(path) >= 2 /\ path[1] = "api"

(***************************************************************************)
(* _check_typescript_compilation, _parse_typescript_error                  *)
(*                                                                         *)
(* project.tsc = [status, err, stderr]: status "cannot_run" when           *)
(* subprocess.run raises (err is the exception's text), else "exit0" or    *)
(* "exit_nonzero"; stderr is result.stderr.split('\n').  A line is         *)
(* [kind, file, line, msg]: kind "diag" is a line of the form              *)
(* file(line,col): error TSnnnn: msg, "found" a line starting with Found,  *)
(* "blank" an empty line, "other" any other text.                          *)
(***************************************************************************)
PatternMatches(error_line) == error_line.kind = "diag"

_parse_typescript_error(issues, error_line) ==
    IF PatternMatches(error_line)
    THEN _add_issue(issues, error_line.file, error_line.line, "CRITICAL", "TypeScript",
                    <<"Compilation", "error:">> \o error_line.msg,
                    "Fix TypeScript syntax and type errors")
    ELSE issues

RECURSIVE ParseErrors(_, _)
ParseErrors(issues, errors) ==
    IF errors = <<>> THEN issues
    ELSE LET error == Head(errors)
             next == IF error.kind # "blank" /\ error.kind # "found"
                     THEN _parse_typescript_error(issues, error)
                     ELSE issues
         IN  ParseErrors(next, Tail(errors))

_check_typescript_compilation(issues, p) ==
    IF p.tsc.status = "cannot_run"
    THEN _add_issue(issues, "tsconfig.json", 0, "CRITICAL", "TypeScript",
                    <<"Failed", "to", "run", "TypeScript", "compiler:">> \o p.tsc.err,
                    "Ensure TypeScript is properly installed and configured")
    ELSE IF p.tsc.status = "exit_nonzero"
         THEN ParseErrors(issues, p.tsc.stderr)
         ELSE issues

(***************************************************************************)
(* _check_missing_dependencies                                             *)
(*                                                                         *)
(* project.pkg = [state, err, dependencies, devDependencies, scripts]:     *)
(* state "absent", "malformed" (the try block raises: json.load on a file   *)
(* that is not valid JSON, or .get on a JSON value that is not an object;  *)
(* err is the exception's text) or "parsed" (a JSON object).               *)
(***************************************************************************)
required_deps ==
    <<"@types/react", "@types/react-dom", "typescript", "drizzle-orm",
      "@tanstack/react-query", "wouter">>

RECURSIVE MissingDeps(_, _, _)
MissingDeps(issues, deps, dependencies) ==
    IF deps = <<>> THEN issues
    ELSE LET dep == Head(deps)
             next == IF dep \notin dependencies
                     THEN _add_issue(issues, "package.json", 0, "HIGH", "Dependencies",
                                     <<"Missing", "required", "dependency:", dep>>,
                                     "Add " \o dep \o " to dependencies or devDependencies")
                     ELSE issues
         IN  MissingDeps(next, Tail(deps), dependencies)

\* _check_missing_dependencies looking at dependencies only.
_check_missing_dependencies_without_dev(issues, p) ==
    IF p.pkg.state = "absent"
    THEN _add_issue(issues, "package.json", 0, "CRITICAL", "Dependencies",
                    <<"package.json", "not", "found">>,
                    "Create package.json with proper dependencies")
    ELSE IF p.pkg.state = "malformed"
         THEN _add_issue(issues, "package.json", 0, "CRITICAL", "Dependencies",
                         <<"Failed", "to", "parse", "package.json:">> \o p.pkg.err,
                         "Fix package.json syntax")
         ELSE MissingDeps(issues, required_deps, p.pkg.dependencies)

_check_missing_dependencies(issues, p) ==
    IF p.pkg.state = "absent"
    THEN _add_issue(issues, "package.json", 0, "CRITICAL", "Dependencies",
                    <<"package.json", "not", "found">>,
                    "Create package.json with proper dependencies")
    ELSE IF p.pkg.state = "malformed"
         THEN _add_issue(issues, "package.json", 0, "CRITICAL", "Dependencies",
                         <<"Failed", "to", "parse", "package.json:">> \o p.pkg.err,
                         "Fix package.json syntax")
         ELSE MissingDeps(issues, required_deps,
                          p.pkg.dependencies \cup p.pkg.devDependencies)

(***************************************************************************)
(* _check_database_schema_consistency                                      *)
(***************************************************************************)
\* mark in content
ContentHas(file, mark) == \E i \in 1..Len(file.lines) : mark \in file.lines[i].marks

_check_database_schema_consistency(issues, p) ==
    LET schema == p.files[SchemaTs] IN
    IF schema.state = "absent"
    THEN _add_issue(issues, "shared/schema.ts", 0, "CRITICAL", "Database",
                    <<"Database", "schema", "file", "not", "found">>,
                    "Create shared/schema.ts with Drizzle schema definitions")
    ELSE IF schema.state = "unreadable"
         THEN _add_issue(issues, "shared/schema.ts", 0, "HIGH", "Database",
                         <<"Failed", "to", "read", "schema", "file:">> \o schema.err,
                         "Fix schema file accessibility")
         ELSE LET a == IF ~ContentHas(schema, "export const")
                       THEN _add_issue(issues, "shared/schema.ts", 0, "HIGH", "Database",
                                       <<"No", "table", "exports", "found", "in", "schema">>,
                                       "Add proper table exports")
                       ELSE issues
              IN  IF ~ContentHas(schema, "export type")
                  THEN _add_issue(a, "shared/schema.ts", 0, "MEDIUM", "Database",
                                  <<"No", "type", "exports", "found", "in", "schema">>,
                                  "Add proper type exports for InsertUser, User, etc.")
                  ELSE a

(***************************************************************************)
(* _check_api_route_consistency: _check_server_routes, then                *)
(* _check_client_api_calls                                                 *)
(***************************************************************************)
\* re.findall(pattern, content) for one of route_patterns: the declarations on
\* object obj ("app" or "router") with method get, post, put or delete, in order.
RouteMatches(lines, obj) ==
    SelectSeq(lines, LAMBDA l : l.route # <<>> /\ l.route[1] = obj
                                /\ l.route[2] \in {"get", "post", "put", "delete"})

RECURSIVE RouteIssues(_, _)
RouteIssues(issues, routes) ==
    IF routes = <<>> THEN issues
    ELSE LET path == Head(routes).route[3]
             next == IF ~StartsWithApi(path)
                     THEN _add_issue(issues, RoutesTs, 0, "MEDIUM", "API Routes",
                                     <<"Route", PathStr(path), "doesn't", "follow", "/api/",
                                       "convention">>,
                                     "Update route to start with /api/")
                     ELSE issues
         IN  RouteIssues(next, Tail(routes))

_check_server_routes(issues, p) ==
    LET f == p.files[RoutesTs] IN
    IF f.state = "unreadable"
    THEN _add_issue(issues, RoutesTs, 0, "HIGH", "API Routes",
                    <<"Failed", "to", "parse", "routes", "file:">> \o f.err,
                    "Fix routes file syntax")
    ELSE RouteIssues(issues, RouteMatches(f.lines, "app") \o RouteMatches(f.lines, "router"))

\* The body of _check_client_api_calls's loop for one file.
RECURSIVE QueryIssues(_, _, _)
QueryIssues(issues, file_path, lines) ==
    IF lines = <<>> THEN issues
    ELSE LET query == Head(lines).query
             next == IF query # <<>> /\ ~StartsWithApi(query)
                     THEN _add_issue(issues, file_path, 0, "MEDIUM", "API Calls",
                                     <<"Query", "key", PathStr(query), "doesn't", "follow",
                                       "/api/", "convention">>,
                                     "Update query key to start with /api/")
                     ELSE issues
         IN  QueryIssues(next, file_path, Tail(lines))

\* The files of a traversal whose per-file scan runs to its end: a file that
\* cannot be read raises inside the scan's try block and is skipped.
ReadableFiles(p, paths) ==
    SelectSeq(paths, LAMBDA f : p.files[f].state # "unreadable")

_check_client_api_calls(issues, p) ==
    LET files == ReadableFiles(p, ClientTsxFiles(p))
        after[i \in 0..Len(files)] ==
            IF i = 0 THEN issues
            ELSE QueryIssues(after[i - 1], files[i], p.files[files[i]].lines)
    IN  after[Len(files)]

_check_api_route_consistency(issues, p) ==
    LET a == IF Exists(p, RoutesTs) THEN _check_server_routes(issues, p) ELSE issues
    IN  _check_client_api_calls(a, p)

(***************************************************************************)
(* _check_import_export_issues, _check_file_imports                        *)
(*                                                                         *)
(* project.existing is the set of [dir, name] that exist on disk as import *)
(* targets (files or directories).                                         *)
(***************************************************************************)
RECURSIVE NameStr(_)
NameStr(name) == IF name = <<>> THEN "" ELSE Head(name) \o NameStr(Tail(name))

\* file_path.parent
ParentDir(file_path) ==
    CASE file_path = AppTsx -> "client/src"
      [] file_path = RoutesTs -> "server"
      [] file_path = SchemaTs -> "shared"
      [] OTHER -> "."

\* (file_path.parent / import_path).resolve(): "./" stays in the directory, "../"
\* goes to its parent.
UpDir(dir) == IF dir = "client/src" THEN "client" ELSE "."

Resolve(file_path, import) ==
    [dir |-> IF import.prefix = "../" THEN UpDir(ParentDir(file_path))
             ELSE ParentDir(file_path),
     name |-> import.name]

\* PurePath.with_suffix: the last suffix of the name is replaced; a name without
\* suffix gets one.
with_suffix(path, suffix) ==
    [path EXCEPT !.name = IF Len(path.name) > 1
                          THEN SubSeq(path.name, 1, Len(path.name) - 1) \o <<suffix>>
                          ELSE path.name \o <<suffix>>]

\* path / child
Child(path, child) == [path EXCEPT !.name = path.name \o <<"/" \o child>>]

possible_files(resolved_path) ==
    <<resolved_path,
      with_suffix(resolved_path, ".ts"),
      with_suffix(resolved_path, ".tsx"),
      Child(resolved_path, "index.ts"),
      Child(resolved_path, "index.tsx")>>

ImportResolves(p, file_path, import) ==
    LET files == possible_files(Resolve(file_path, import))
    IN  \E k \in 1..Len(files) : files[k] \in p.existing

_check_file_imports(issues, p, file_path, lines) ==
    LET after[i \in 0..Len(lines)] ==
            IF i = 0 THEN issues
            ELSE LET import == lines[i].import
                 IN  IF import # NoImport /\ import.prefix \in {"./", "../"}
                        /\ ~ImportResolves(p, file_path, import)
                     THEN _add_issue(after[i - 1], file_path, i, "HIGH", "Imports",
                                     <<"Import", "path", "not", "found:",
                                       import.prefix \o NameStr(import.name)>>,
                                     "Fix import path or create missing file")
                     ELSE after[i - 1]
    IN  after[Len(lines)]

_check_import_export_issues(issues, p) ==
    LET files == ReadableFiles(p, TypescriptFiles(p))
        after[i \in 0..Len(files)] ==
            IF i = 0 THEN issues
            ELSE _check_file_imports(after[i - 1], p, files[i], p.files[files[i]].lines)
    IN  after[Len(files)]

(***************************************************************************)
(* _check_component_structure, _check_react_component                      *)
(***************************************************************************)
\* One LOW issue per import line that imports React, when the content uses
\* neither React. nor createElement.
RECURSIVE ReactImportIssues(_, _, _)
ReactImportIssues(issues, file_path, lines) ==
    IF lines = <<>> THEN issues
    ELSE LET next == IF "import React from" \in Head(lines).marks
                     THEN _add_issue(issues, file_path, 0, "LOW", "React",
                                     <<"Unnecessary", "React", "import", "(using", "JSX",
                                       "transform)">>,
                                     "Remove explicit React import")
                     ELSE issues
         IN  ReactImportIssues(next, file_path, Tail(lines))

_check_react_component(issues, file_path, lines) ==
    LET file == [lines |-> lines]
        a == IF ~ContentHas(file, "export default")
             THEN _add_issue(issues, file_path, 0, "MEDIUM", "React",
                             <<"Component", "missing", "default", "export">>,
                             "Add default export for React component")
             ELSE issues
    IN  IF ~ContentHas(file, "React.") /\ ~ContentHas(file, "createElement")
        THEN ReactImportIssues(a, file_path, lines)
        ELSE a

_check_component_structure(issues, p) ==
    LET files == ReadableFiles(p, ClientTsxFiles(p))
        after[i \in 0..Len(files)] ==
            IF i = 0 THEN issues
            ELSE _check_react_component(after[i - 1], files[i], p.files[files[i]].lines)
    IN  after[Len(files)]

(***************************************************************************)
(* _check_react_hooks_usage, _check_hooks_in_file                          *)
(***************************************************************************)
_check_hooks_in_file(issues, file_path, lines) ==
    LET after[i \in 0..Len(lines)] ==
            IF i = 0 THEN issues
            ELSE IF "if (useState" \in lines[i].marks
                 THEN _add_issue(after[i - 1], file_path, i, "HIGH", "React Hooks",
                                 <<"Hook", "called", "conditionally">>,
                                 "Move hook call outside conditional logic")
                 ELSE after[i - 1]
    IN  after[Len(lines)]

_check_react_hooks_usage(issues, p) ==
    LET files == ReadableFiles(p, ClientTsxFiles(p))
        after[i \in 0..Len(files)] ==
            IF i = 0 THEN issues
            ELSE _check_hooks_in_file(after[i - 1], files[i], p.files[files[i]].lines)
    IN  after[Len(files)]

(***************************************************************************)
(* _check_type_safety, _check_types_in_file                                *)
(***************************************************************************)
_check_types_in_file(issues, file_path, lines) ==
    LET after[i \in 0..Len(lines)] ==
            IF i = 0 THEN issues
            ELSE LET marks == lines[i].marks
                     a == IF ": any" \in marks /\ "// @ts-ignore" \notin marks
                          THEN _add_issue(after[i - 1], file_path, i, "MEDIUM",
                                          "Type Safety", <<"Using", "'any'", "type">>,
                                          "Replace 'any' with specific type")
                          ELSE after[i - 1]
                 IN  IF "function f() {" \in marks /\ "):" \notin marks
                     THEN _add_issue(a, file_path, i, "LOW", "Type Safety",
                                     <<"Function", "missing", "return", "type">>,
                                     "Add explicit return type to function")
                     ELSE a
    IN  after[Len(lines)]

_check_type_safety(issues, p) ==
    LET files == ReadableFiles(p, TypescriptFiles(p))
        after[i \in 0..Len(files)] ==
            IF i = 0 THEN issues
            ELSE _check_types_in_file(after[i - 1], files[i], p.files[files[i]].lines)
    IN  after[Len(files)]

(***************************************************************************)
(* _check_brand_color_compliance, _check_colors_in_css,                    *)
(* _check_colors_in_tsx                                                    *)
(***************************************************************************)
forbidden_colors ==
    <<"#ff", "#00", "#blue", "#red", "#green", "#yellow", "#purple", "#pink",
      "blue-", "red-", "green-", "yellow-", "purple-", "pink-", "indigo-", "violet-">>

\* The inner loop of _check_colors_in_css for line i: one issue per forbidden
\* substring the line contains, in the order of forbidden_colors.
RECURSIVE ForbiddenIssues(_, _, _, _, _)
ForbiddenIssues(issues, file_path, i, marks, colors) ==
    IF colors = <<>> THEN issues
    ELSE LET forbidden == Head(colors)
             next == IF forbidden \in marks
                     THEN _add_issue(issues, file_path, i, "MEDIUM", "Brand Colors",
                                     <<"Non-brand", "color", "found:", forbidden>>,
                                     "Replace with brand colors")
                     ELSE issues
         IN  ForbiddenIssues(next, file_path, i, marks, Tail(colors))

_check_colors_in_css(issues, file_path, lines) ==
    LET after[i \in 0..Len(lines)] ==
            IF i = 0 THEN issues
            ELSE ForbiddenIssues(after[i - 1], file_path, i, lines[i].marks,
                                 forbidden_colors)
    IN  after[Len(lines)]

\* The colour captured by the className regex on a line carrying that mark.
tailwind_colors ==
    [m \in {"className='bg-blue-500'", "className='text-red-600'"} |->
        IF m = "className='bg-blue-500'" THEN "blue" ELSE "red"]

RECURSIVE _check_colors_in_tsx(_, _, _)
_check_colors_in_tsx(issues, file_path, lines) ==
    IF lines = <<>> THEN issues
    ELSE LET hits == Head(lines).marks \cap DOMAIN tailwind_colors
             next == IF hits # {}
                     THEN _add_issue(issues, file_path, 0, "MEDIUM", "Brand Colors",
                                     <<"Non-brand", "Tailwind", "color:",
                                       tailwind_colors[CHOOSE m \in hits : TRUE]>>,
                                     "Replace with brand color classes or custom styles")
                     ELSE issues
         IN  _check_colors_in_tsx(next, file_path, Tail(lines))

_check_brand_color_compliance(issues, p) ==
    LET styles == ReadableFiles(p, StyleFiles(p))
        css[i \in 0..Len(styles)] ==
            IF i = 0 THEN issues
            ELSE _check_colors_in_css(css[i - 1], styles[i], p.files[styles[i]].lines)
        files == ReadableFiles(p, TypescriptFiles(p))
        after[i \in 0..Len(files)] ==
            IF i = 0 THEN css[Len(styles)]
            ELSE _check_colors_in_tsx(after[i - 1], files[i], p.files[files[i]].lines)
    IN  after[Len(files)]

(***************************************************************************)
(* _check_configuration_files, _check_tsconfig, _check_package_scripts     *)
(*                                                                         *)
(* project.tsconfig = [state, err, strict, paths]: state as for pkg;       *)
(* strict is compilerOptions.strict == True, paths is 'paths' in           *)
(* compilerOptions.                                                        *)
(***************************************************************************)
\* _check_tsconfig reporting a parse failure without the exception's text.
_check_tsconfig_without_message(issues, p) ==
    IF p.tsconfig.state = "malformed"
    THEN _add_issue(issues, "tsconfig.json", 0, "HIGH", "Configuration",
                    <<"Failed", "to", "parse", "tsconfig.json:">>,
                    "Fix JSON syntax in tsconfig.json")
    ELSE LET a == IF ~p.tsconfig.strict
                  THEN _add_issue(issues, "tsconfig.json", 0, "MEDIUM", "Configuration",
                                  <<"TypeScript", "strict", "mode", "not", "enabled">>,
                                  "Enable strict mode in compilerOptions")
                  ELSE issues
         IN  IF ~p.tsconfig.paths
             THEN _add_issue(a, "tsconfig.json", 0, "LOW", "Configuration",
                             <<"No", "path", "mappings", "configured">>,
                             "Add path mappings for cleaner imports")
             ELSE a

_check_tsconfig(issues, p) ==
    IF p.tsconfig.state = "malformed"
    THEN _add_issue(issues, "tsconfig.json", 0, "HIGH", "Configuration",
                    <<"Failed", "to", "parse", "tsconfig.json:">> \o p.tsconfig.err,
                    "Fix JSON syntax in tsconfig.json")
    ELSE LET a == IF ~p.tsconfig.strict
                  THEN _add_issue(issues, "tsconfig.json", 0, "MEDIUM", "Configuration",
                                  <<"TypeScript", "strict", "mode", "not", "enabled">>,
                                  "Enable strict mode in compilerOptions")
                  ELSE issues
         IN  IF ~p.tsconfig.paths
             THEN _add_issue(a, "tsconfig.json", 0, "LOW", "Configuration",
                             <<"No", "path", "mappings", "configured">>,
                             "Add path mappings for cleaner imports")
             ELSE a

required_scripts == <<"dev", "build", "start">>

RECURSIVE MissingScripts(_, _, _)
MissingScripts(issues, wanted, scripts) ==
    IF wanted = <<>> THEN issues
    ELSE LET script == Head(wanted)
             next == IF script \notin scripts
                     THEN _add_issue(issues, "package.json", 0, "LOW", "Configuration",
                                     <<"Missing", script, "script">>,
                                     "Add " \o script \o " script to package.json")
                     ELSE issues
         IN  MissingScripts(next, Tail(wanted), scripts)

_check_package_scripts(issues, p) ==
    IF p.pkg.state = "malformed" THEN issues
    ELSE MissingScripts(issues, required_scripts, p.pkg.scripts)

_check_configuration_files(issues, p) ==
    LET a == IF p.tsconfig.state # "absent"
             THEN _check_tsconfig(issues, p)
             ELSE _add_issue(issues, "tsconfig.json", 0, "HIGH", "Configuration",
                             <<"tsconfig.json", "not", "found">>,
                             "Create tsconfig.json with proper TypeScript configuration")
    IN  IF p.pkg.state # "absent" THEN _check_package_scripts(a, p) ELSE a

(***************************************************************************)
(* _check_environment_variables, _check_env_vars_in_file                   *)
(***************************************************************************)
\* 'client/src' in str(file_path)
InClientSrc(file_path) == file_path \in {AppTsx, StylesCss}

\* A line marked "process.env.API_URL" reads the variable API_URL; one marked
\* "process.env.VITE_API_URL" reads a variable that starts with VITE_.
RECURSIVE _check_env_vars_in_file(_, _, _)
_check_env_vars_in_file(issues, file_path, lines) ==
    IF lines = <<>> THEN issues
    ELSE LET next == IF InClientSrc(file_path)
                        /\ "process.env.API_URL" \in Head(lines).marks
                     THEN _add_issue(issues, file_path, 0, "HIGH", "Environment",
                                     <<"Frontend", "env", "var", "API_URL", "missing",
                                       "VITE_", "prefix">>,
                                     "Rename to VITE_API_URL or use import.meta.env")
                     ELSE issues
         IN  _check_env_vars_in_file(next, file_path, Tail(lines))

_check_environment_variables(issues, p) ==
    LET files == ReadableFiles(p, TypescriptFiles(p))
        after[i \in 0..Len(files)] ==
            IF i = 0 THEN issues
            ELSE _check_env_vars_in_file(after[i - 1], files[i], p.files[files[i]].lines)
    IN  after[Len(files)]

(***************************************************************************)
(* _check_code_quality, _check_quality_in_file                             *)
(***************************************************************************)
_check_quality_in_file(issues, file_path, lines) ==
    LET after[i \in 0..Len(lines)] ==
            IF i = 0 THEN issues
            ELSE LET marks == lines[i].marks
                     a == IF "console.log" \in marks /\ "// @keep" \notin marks
                          THEN _add_issue(after[i - 1], file_path, i, "LOW", "Code Quality",
                                          <<"console.log", "found">>,
                                          "Remove console.log or replace with proper logging")
                          ELSE after[i - 1]
                 IN  IF "TODO" \in marks
                     THEN _add_issue(a, file_path, i, "LOW", "Code Quality",
                                     <<"TODO/FIXME", "comment", "found">>,
                                     "Complete or remove TODO/FIXME comment")
                     ELSE a
    IN  after[Len(lines)]

_check_code_quality(issues, p) ==
    LET files == ReadableFiles(p, TypescriptFiles(p))
        after[i \in 0..Len(files)] ==
            IF i = 0 THEN issues
            ELSE _check_quality_in_file(after[i - 1], files[i], p.files[files[i]].lines)
    IN  after[Len(files)]

(***************************************************************************)
(* _check_documentation: project.readme is whether a README* file exists   *)
(***************************************************************************)
_check_documentation(issues, p) ==
    IF ~p.readme
    THEN _add_issue(issues, "README.md", 0, "LOW", "Documentation",
                    <<"README", "file", "not", "found">>,
                    "Create README.md with project documentation")
    ELSE issues

(***************************************************************************)
(* _calculate_results                                                      *)
(***************************************************************************)
RECURSIVE CountSeverity(_, _)
CountSeverity(issues, severities) ==
    IF issues = <<>> THEN 0
    ELSE (IF Head(issues).severity \in severities THEN 1 ELSE 0)
         + CountSeverity(Tail(issues), severities)

\* max(0, x)
Max0(x) == IF x.num <= 0 THEN Float(0, 1) ELSE x

\* _calculate_results with the HIGH issues left out of the pass rate.
_calculate_results_critical_only(r) ==
    LET total_issues == Len(r.issues)
        critical_count == r.critical_count + CountSeverity(r.issues, {"CRITICAL"})
    IN  [r EXCEPT !.critical_count = critical_count,
                  !.high_count = r.high_count + CountSeverity(r.issues, {"HIGH"}),
                  !.medium_count = r.medium_count + CountSeverity(r.issues, {"MEDIUM"}),
                  !.low_count = r.low_count + CountSeverity(r.issues, {"LOW"}),
                  !.pass_rate = IF total_issues = 0 THEN Float(100, 1)
                                ELSE Max0(Float((total_issues - critical_count) * 100,
                                                total_issues))]

\* The counters are incremented from the values they hold, once per issue of the
\* list; the pass rate is computed from the counters.
_calculate_results(r) ==
    LET total_issues == Len(r.issues)
        critical_count == r.critical_count + CountSeverity(r.issues, {"CRITICAL"})
        high_count == r.high_count + CountSeverity(r.issues, {"HIGH"})
        medium_count == r.medium_count + CountSeverity(r.issues, {"MEDIUM"})
        low_count == r.low_count
                     + CountSeverity(r.issues, Severity \ {"CRITICAL", "HIGH", "MEDIUM"})
        critical_high == critical_count + high_count
    IN  [r EXCEPT !.critical_count = critical_count,
                  !.high_count = high_count,
                  !.medium_count = medium_count,
                  !.low_count = low_count,
                  !.pass_rate = IF total_issues = 0 THEN Float(100, 1)
                                ELSE Max0(Float((total_issues - critical_high) * 100,
                                                total_issues))]

\* x >= 100.0 and x < 100.0 on fractions
AtLeast100(x) == x.num >= 100 * x.den

(***************************************************************************)
(* run_audit: the thirteen checks in the order of the method body, then    *)
(* _calculate_results                                                      *)
(***************************************************************************)
\* run_audit with the configuration check called before the dependency check.
ChecksReordered ==
    <<"_check_typescript_compilation", "_check_configuration_files",
      "_check_database_schema_consistency", "_check_api_route_consistency",
      "_check_import_export_issues", "_check_component_structure",
      "_check_react_hooks_usage", "_check_type_safety",
      "_check_brand_color_compliance", "_check_missing_dependencies",
      "_check_environment_variables", "_check_code_quality", "_check_documentation">>

Checks ==
    <<"_check_typescript_compilation", "_check_missing_dependencies",
      "_check_database_schema_consistency", "_check_api_route_consistency",
      "_check_import_export_issues", "_check_component_structure",
      "_check_react_hooks_usage", "_check_type_safety",
      "_check_brand_color_compliance", "_check_configuration_files",
      "_check_environment_variables", "_check_code_quality", "_check_documentation">>

RunCheck(name, issues, p) ==
    CASE name = "_check_typescript_compilation" -> _check_typescript_compilation(issues, p)
      [] name = "_check_missing_dependencies" -> _check_missing_dependencies(issues, p)
      [] name = "_check_database_schema_consistency" ->
             _check_database_schema_consistency(issues, p)
      [] name = "_check_api_route_consistency" -> _check_api_route_consistency(issues, p)
      [] name = "_check_import_export_issues" -> _check_import_export_issues(issues, p)
      [] name = "_check_component_structure" -> _check_component_structure(issues, p)
      [] name = "_check_react_hooks_usage" -> _check_react_hooks_usage(issues, p)
      [] name = "_check_type_safety" -> _check_type_safety(issues, p)
      [] name = "_check_brand_color_compliance" -> _check_brand_color_compliance(issues, p)
      [] name = "_check_configuration_files" -> _check_configuration_files(issues, p)
      [] name = "_check_environment_variables" -> _check_environment_variables(issues, p)
      [] name = "_check_code_quality" -> _check_code_quality(issues, p)
      [] name = "_check_documentation" -> _check_documentation(issues, p)

\* The checks called names, one after the other, on the list issues.  (The set
\* brackets make TLC evaluate a check's list before the next check starts.)
RunChecks(issues, p, names) ==
    LET after[k \in 0..Len(names)] ==
            IF k = 0 THEN issues
            ELSE CHOOSE next \in {RunCheck(names[k], prev, p) : prev \in {after[k - 1]}} :
                     TRUE
    IN  after[Len(names)]

\* The whole of run_audit on the results object r.
run_audit(r, p) == _calculate_results([r EXCEPT !.issues = RunChecks(r.issues, p, Checks)])

\* The checks in which a statement raises on project p: subprocess.run, open,
\* read or json.load.
Raises(name, p) ==
    LET unreadable(paths) ==
            \E k \in 1..Len(paths) : p.files[paths[k]].state = "unreadable"
    IN  CASE name = "_check_typescript_compilation" -> p.tsc.status = "cannot_run"
          [] name = "_check_missing_dependencies" -> p.pkg.state = "malformed"
          [] name = "_check_database_schema_consistency" ->
                 p.files[SchemaTs].state = "unreadable"
          [] name = "_check_api_route_consistency" ->
                 unreadable(<<RoutesTs>> \o ClientTsxFiles(p))
          [] name \in {"_check_component_structure", "_check_react_hooks_usage"} ->
                 unreadable(ClientTsxFiles(p))
          [] name = "_check_brand_color_compliance" ->
                 unreadable(StyleFiles(p) \o TypescriptFiles(p))
          [] name = "_check_configuration_files" ->
                 p.tsconfig.state = "malformed" \/ p.pkg.state = "malformed"
          [] name = "_check_documentation" -> FALSE
          [] OTHER -> unreadable(TypescriptFiles(p))

\* _check_tsconfig without its try block.
HandledButConfiguration ==
    {"_check_typescript_compilation", "_check_missing_dependencies",
     "_check_database_schema_consistency", "_check_api_route_consistency",
     "_check_import_export_issues", "_check_component_structure",
     "_check_react_hooks_usage", "_check_type_safety", "_check_brand_color_compliance",
     "_check_environment_variables", "_check_code_quality"}

\* The checks whose raising statements all stand inside a try block with an
\* except Exception handler.
Handled ==
    {"_check_typescript_compilation", "_check_missing_dependencies",
     "_check_database_schema_consistency", "_check_api_route_consistency",
     "_check_import_export_issues", "_check_component_structure",
     "_check_react_hooks_usage", "_check_type_safety", "_check_brand_color_compliance",
     "_check_configuration_files", "_check_environment_variables",
     "_check_code_quality"}

\* An exception leaves the check, and with it run_audit and main.
Propagates(name, p) == Raises(name, p) /\ name \notin Handled

(***************************************************************************)
(* generate_fixes, _generate_fix_command                                   *)
(***************************************************************************)
\* word in description
Contains(description, word) == \E i \in 1..Len(description) : description[i] = word

\* "not found" in description
ContainsNotFound(description) ==
    \E i \in 1..(Len(description) - 1) :
        description[i] = "not" /\ description[i + 1] \in {"found", "found:"}

\* None is the empty sequence.
_generate_fix_command(issue) ==
    IF issue.category = "TypeScript" /\ Contains(issue.description, "Missing")
    THEN <<"#", "Fix", "missing", "dependency:">> \o issue.description
    ELSE IF issue.category = "Imports" /\ ContainsNotFound(issue.description)
         THEN <<"#", "Fix", "import", "path", "in", issue.file_path, issue.line_number>>
         ELSE IF issue.category = "Brand Colors"
              THEN <<"#", "Update", "colors", "in", issue.file_path, "to", "use", "brand",
                     "palette">>
              ELSE <<>>

\* sorted(..., key=severity index): a stable sort on four keys
sorted_issues(issues) ==
    SelectSeq(issues, LAMBDA x : x.severity = "CRITICAL")
    \o SelectSeq(issues, LAMBDA x : x.severity = "HIGH")
    \o SelectSeq(issues, LAMBDA x : x.severity = "MEDIUM")
    \o SelectSeq(issues, LAMBDA x : x.severity = "LOW")

RECURSIVE FixCommands(_)
FixCommands(issues) ==
    IF issues = <<>> THEN <<>>
    ELSE LET issue == Head(issues)
             fix_command == IF issue.severity \in {"CRITICAL", "HIGH"}
                            THEN _generate_fix_command(issue)
                            ELSE <<>>
         IN  (IF fix_command # <<>> THEN <<fix_command>> ELSE <<>>)
             \o FixCommands(Tail(issues))

generate_fixes(r) == FixCommands(sorted_issues(r.issues))

(***************************************************************************)
(* The projects the program is run on.  Two base projects, Clean (no check *)
(* finds anything) and Messy (every check finds something), and every      *)
(* project that differs from one of them in a single artifact.             *)
(***************************************************************************)
MaxStderrLines == 1

JsonError == <<"Expecting", "value:", "line", "1", "column", "1", "(char", "0)">>
JsonError2 == <<"Extra", "data:", "line", "2", "column", "1", "(char", "3)">>
OsError == <<"[Errno", "13]", "Permission", "denied">>
AttrError == <<"'list'", "object", "has", "no", "attribute", "'get'">>
SpawnError == <<"[Errno", "2]", "No", "such", "file", "or", "directory:", "'npx'">>

\* stderr lines of the type checker
TscLines ==
    {[kind |-> "diag", file |-> "server/routes.ts", line |-> 3,
      msg |-> <<"Type", "'string'", "is", "not", "assignable">>],
     [kind |-> "other", file |-> "", line |-> 0, msg |-> <<>>],
     [kind |-> "found", file |-> "", line |-> 0, msg |-> <<>>],
     [kind |-> "blank", file |-> "", line |-> 0, msg |-> <<>>]}

Tsc(status, err, stderr) == [status |-> status, err |-> err, stderr |-> stderr]

TscValues ==
    {Tsc("exit0", <<>>, <<>>), Tsc("cannot_run", SpawnError, <<>>)}
    \cup {Tsc("exit_nonzero", <<>>, e) :
            e \in UNION {[1..n -> TscLines] : n \in 1..MaxStderrLines}}

AllDeps == {required_deps[i] : i \in 1..Len(required_deps)}
AllScripts == {required_scripts[i] : i \in 1..Len(required_scripts)}

Pkg(state, err, deps, dev, scripts) ==
    [state |-> state, err |-> err, dependencies |-> deps, devDependencies |-> dev,
     scripts |-> scripts]

PkgValues ==
    {Pkg("absent", <<>>, {}, {}, {}),
     Pkg("malformed", JsonError, {}, {}, {}),
     Pkg("malformed", JsonError2, {}, {}, {}),
     Pkg("malformed", AttrError, {}, {}, {}),
     Pkg("parsed", <<>>, AllDeps, {}, AllScripts),
     Pkg("parsed", <<>>, AllDeps \ {"typescript", "@types/react"},
         {"typescript", "@types/react"}, AllScripts),
     Pkg("parsed", <<>>, AllDeps \ {"wouter"}, {"typescript"}, AllScripts),
     Pkg("parsed", <<>>, {"wouter"}, {}, {"dev", "build"}),
     Pkg("parsed", <<>>, {}, {}, {})}

TsConf(state, err, strict, paths) ==
    [state |-> state, err |-> err, strict |-> strict, paths |-> paths]

TsConfValues ==
    {TsConf("absent", <<>>, FALSE, FALSE),
     TsConf("malformed", JsonError, FALSE, FALSE),
     TsConf("malformed", JsonError2, FALSE, FALSE),
     TsConf("malformed", AttrError, FALSE, FALSE)}
    \cup {TsConf("parsed", <<>>, s, m) : s \in BOOLEAN, m \in BOOLEAN}

File(state, err, lines) == [state |-> state, err |-> err, lines |-> lines]
Absent == File("absent", <<>>, <<>>)
Unreadable == File("unreadable", OsError, <<>>)
Read(lines) == File("read", <<>>, lines)

Import(prefix, name) == [Line({"import"}) EXCEPT !.import = [prefix |-> prefix, name |-> name]]
Route(obj, method, path) == [Line({}) EXCEPT !.route = <<obj, method, path>>]
Query(path) == [Line({}) EXCEPT !.query = path]

Exports == Line({"export const", "export type"})

SchemaValues ==
    {Absent, Unreadable, Read(<<Exports>>), Read(<<Line({"export const"})>>),
     Read(<<Line({"export type"})>>), Read(<<>>), Read(<<Exports, Line({"TODO"})>>)}

RoutesValues ==
    {Absent, Unreadable,
     Read(<<Route("app", "get", <<"api", "users">>)>>),
     Read(<<Route("app", "get", <<"users">>)>>),
     Read(<<Route("router", "post", <<"users">>), Route("app", "get", <<"health">>)>>),
     Read(<<Route("app", "patch", <<"users">>)>>),
     Read(<<Route("app", "get", <<"api">>), Line({": any"})>>)}

Component == Line({"export default"})

AppLines ==
    {Import("", <<"react">>), Import("./", <<"foo">>), Import("./", <<"foo", ".service">>),
     Import("../", <<"lib">>),
     [Import("", <<"react">>) EXCEPT !.marks = {"import", "import React from"}],
     Query(<<"users">>), Query(<<"api", "users">>),
     Line({"if (useState"}), Line({": any"}), Line({": any", "// @ts-ignore"}),
     Line({"function f() {"}), Line({"function f() {", "):"}),
     Line({"className='bg-blue-500'"}), Line({"process.env.API_URL"}),
     Line({"process.env.VITE_API_URL"}), Line({"console.log"}),
     Line({"console.log", "// @keep"}), Line({"TODO", "console.log"})}

AppValues ==
    {Absent, Unreadable, Read(<<>>), Read(<<Component>>),
     Read(<<[Import("", <<"react">>) EXCEPT !.marks = {"import", "import React from"}],
            Line({"React.", "export default"})>>)}
    \cup {Read(<<Component, l>>) : l \in AppLines}

CssValues ==
    {Absent, Unreadable, Read(<<Line({})>>), Read(<<Line({}), Line({"#ff", "blue-"})>>)}

ListingValues == {<<SchemaTs, RoutesTs>>, <<RoutesTs, SchemaTs>>}

Target(dir, name) == [dir |-> dir, name |-> name]

ExistingValues ==
    {{}}
    \cup {{Target("client/src", n)} :
            n \in {<<"foo">>, <<"foo", ".ts">>, <<"foo", ".tsx">>, <<"foo", "/index.ts">>,
                   <<"foo", "/index.tsx">>, <<"foo", ".service">>,
                   <<"foo", ".service", ".ts">>, <<"foo", ".js">>}}
    \cup {{Target("client", <<"lib", ".ts">>)}, {Target("client/src", <<"lib", ".ts">>)}}

Clean ==
    [tsc |-> Tsc("exit0", <<>>, <<>>),
     pkg |-> Pkg("parsed", <<>>, AllDeps, {}, AllScripts),
     tsconfig |-> TsConf("parsed", <<>>, TRUE, TRUE),
     readme |-> TRUE,
     files |-> [f \in {SchemaTs, RoutesTs, AppTsx, StylesCss} |->
                  CASE f = SchemaTs -> Read(<<Exports>>)
                    [] f = RoutesTs -> Read(<<Route("app", "get", <<"api", "users">>)>>)
                    [] f = AppTsx -> Read(<<Component>>)
                    [] f = StylesCss -> Read(<<Line({})>>)],
     listing |-> <<SchemaTs, RoutesTs>>,
     existing |-> {}]

Messy ==
    [tsc |-> Tsc("exit_nonzero", <<>>,
                 <<[kind |-> "diag", file |-> "client/src/App.tsx", line |-> 1,
                    msg |-> <<"Cannot", "find", "name", "'x'">>],
                   [kind |-> "found", file |-> "", line |-> 0, msg |-> <<>>]>>),
     pkg |-> Pkg("parsed", <<>>, {"typescript", "wouter"}, {"drizzle-orm"}, {"dev"}),
     tsconfig |-> TsConf("parsed", <<>>, FALSE, FALSE),
     readme |-> FALSE,
     files |-> [f \in {SchemaTs, RoutesTs, AppTsx, StylesCss} |->
                  CASE f = SchemaTs -> Read(<<Line({"export type", ": any"})>>)
                    [] f = RoutesTs -> Read(<<Route("app", "get", <<"users">>)>>)
                    [] f = AppTsx ->
                         Read(<<Import("./", <<"foo">>), Query(<<"users">>),
                                Import("./", <<"foo", ".service">>),
                                Line({"if (useState", "console.log"}),
                                Line({"className='bg-blue-500'", "process.env.API_URL"})>>)
                    [] f = StylesCss -> Read(<<Line({"#ff"})>>)],
     listing |-> <<SchemaTs, RoutesTs>>,
     existing |-> {}]

Variants(b) ==
    {b}
    \cup {[b EXCEPT !.tsc = v] : v \in TscValues}
    \cup {[b EXCEPT !.pkg = v] : v \in PkgValues}
    \cup {[b EXCEPT !.tsconfig = v] : v \in TsConfValues}
    \cup {[b EXCEPT !.readme = v] : v \in BOOLEAN}
    \cup {[b EXCEPT !.files[SchemaTs] = v] : v \in SchemaValues}
    \cup {[b EXCEPT !.files[RoutesTs] = v] : v \in RoutesValues}
    \cup {[b EXCEPT !.files[AppTsx] = v] : v \in AppValues}
    \cup {[b EXCEPT !.files[StylesCss] = v] : v \in CssValues}
    \cup {[b EXCEPT !.listing = v] : v \in ListingValues}
    \cup {[b EXCEPT !.existing = v] : v \in ExistingValues}

Projects == Variants(Clean) \cup Variants(Messy)

\* The artifacts in which two projects differ.
Differences(p, q) ==
    {f \in {"tsc", "pkg", "tsconfig", "readme", "listing", "existing"} : p[f] # q[f]}
    \cup {f \in DOMAIN p.files : p.files[f] # q.files[f]}

(***************************************************************************)
(* main()                                                                  *)
(***************************************************************************)
max_iterations == 5

Init ==
    /\ project \in Projects
    /\ pc = "loop"
    /\ iteration = 1
    /\ auditor = AuditResults
    /\ results = AuditResults      \* unbound until the first run returns; not read before
    /\ trace = <<>>
    /\ fixes = <<>>
    /\ runs = 0
    /\ fixCalls = 0
    /\ edited = FALSE
    /\ controller = "RUNNING"
    /\ converged_at = 0
    /\ lastRun = AuditResults
    /\ exitCode = -1

\* The loop test with < for <=.
LoopConditionStrict(i) == i < max_iterations

\* while iteration <= max_iterations
LoopCondition(i) == i <= max_iterations

\* The loop test; when it holds, results = auditor.run_audit() is entered.
LoopTest ==
    /\ pc \in {"loop", "loop_edited"}
    /\ IF LoopCondition(iteration)
       THEN /\ pc' = "run_audit"
            /\ runs' = runs + 1
            /\ trace' = <<>>
            /\ controller' = controller
       ELSE /\ pc' = "after_loop"
            /\ controller' = "EXHAUSTED"
            /\ UNCHANGED <<runs, trace>>
    /\ UNCHANGED <<project, iteration, auditor, results, fixes, fixCalls, edited,
                   converged_at, lastRun, exitCode>>

\* run_audit: the next check of the method body
RunNextCheck ==
    /\ pc = "run_audit"
    /\ Len(trace) < Len(Checks)
    /\ LET name == Checks[Len(trace) + 1]
       IN  IF Propagates(name, project)
           THEN /\ pc' = "crashed"
                /\ exitCode' = 1
                /\ UNCHANGED <<auditor, trace>>
           ELSE /\ auditor' = [auditor EXCEPT !.issues = RunCheck(name, @, project)]
                /\ trace' = Append(trace, name)
                /\ UNCHANGED <<pc, exitCode>>
    /\ UNCHANGED <<project, iteration, results, fixes, runs, fixCalls, edited, controller,
                   converged_at, lastRun>>

\* run_audit: self._calculate_results(); return self.results
CalculateAndReturn ==
    /\ pc = "run_audit"
    /\ Len(trace) = Len(Checks)
    /\ LET r == _calculate_results(auditor)
       IN  /\ auditor' = r
           /\ results' = r
           /\ lastRun' = r
           /\ converged_at' = IF converged_at = 0 /\ AtLeast100(r.pass_rate)
                              THEN runs ELSE converged_at
    /\ pc' = "test"
    /\ UNCHANGED <<project, iteration, trace, fixes, runs, fixCalls, edited, controller,
                   exitCode>>

\* The convergence test with > for >=.
PassRateAbove100(r) == r.pass_rate.num > 100 * r.pass_rate.den

\* results.pass_rate >= 100.0
PassRateReached(r) == AtLeast100(r.pass_rate)

\* if results.pass_rate >= 100.0: break
TestPassRate ==
    /\ pc = "test"
    /\ IF PassRateReached(results)
       THEN pc' = "after_loop" /\ controller' = "CONVERGED"
       ELSE pc' = "generate_fixes" /\ controller' = controller
    /\ UNCHANGED <<project, iteration, auditor, results, trace, fixes, runs, fixCalls,
                   edited, converged_at, lastRun, exitCode>>

\* A fix generator that applies its fixes: after it the project has no findings.
GenerateFixesApplied ==
    /\ pc = "generate_fixes"
    /\ fixes' = generate_fixes(auditor)
    /\ fixCalls' = fixCalls + 1
    /\ project' = Clean
    /\ pc' = "next"
    /\ UNCHANGED <<iteration, auditor, results, trace, runs, edited, controller,
                   converged_at, lastRun, exitCode>>

\* fixes = auditor.generate_fixes()
GenerateFixes ==
    /\ pc = "generate_fixes"
    /\ fixes' = generate_fixes(auditor)
    /\ fixCalls' = fixCalls + 1
    /\ pc' = "next"
    /\ UNCHANGED <<project, iteration, auditor, results, trace, runs, edited, controller,
                   converged_at, lastRun, exitCode>>

\* No reset: the next iteration appends to the same object.
ResetKeeps(r) == r

\* auditor.results = AuditResults(): a new object; results keeps the old one
Reset(r) == AuditResults

\* iteration += 1; auditor.results = AuditResults()
NextIteration ==
    /\ pc = "next"
    /\ iteration' = iteration + 1
    /\ auditor' = Reset(auditor)
    /\ pc' = "loop"
    /\ UNCHANGED <<project, results, trace, fixes, runs, fixCalls, edited, controller,
                   converged_at, lastRun, exitCode>>

\* An exit status that ignores the pass rate.
ExitStatusAlwaysZero(r) == 0

\* return results.pass_rate >= 100.0; sys.exit(0 if success else 1)
ExitStatus(r) == IF PassRateReached(r) THEN 0 ELSE 1

Exit ==
    /\ pc = "after_loop"
    /\ exitCode' = ExitStatus(results)
    /\ pc' = "done"
    /\ UNCHANGED <<project, iteration, auditor, results, trace, fixes, runs, fixCalls,
                   edited, controller, converged_at, lastRun>>

\* The environment: between two runs, at most once, one artifact of the project is
\* changed (the project is not changed while a run reads it).
EditProject ==
    /\ pc = "loop"
    /\ 1 < iteration /\ iteration <= max_iterations
    /\ \E q \in Projects :
          /\ Cardinality(Differences(project, q)) = 1
          /\ project' = q
    /\ edited' = TRUE
    /\ pc' = "loop_edited"
    /\ UNCHANGED <<iteration, auditor, results, trace, fixes, runs, fixCalls,
                   controller, converged_at, lastRun, exitCode>>

Next ==
    \/ LoopTest
    \/ RunNextCheck
    \/ CalculateAndReturn
    \/ TestPassRate
    \/ GenerateFixes
    \/ NextIteration
    \/ Exit
    \/ EditProject

Spec == Init /\ [][Next]_vars

\* main() on a project that nothing changes while the program runs.
NextUnchanged ==
    \/ LoopTest
    \/ RunNextCheck
    \/ CalculateAndReturn
    \/ TestPassRate
    \/ GenerateFixes
    \/ NextIteration
    \/ Exit

SpecUnchanged == Init /\ [][NextUnchanged]_vars

(***************************************************************************)
(* The scorer alone: _calculate_results applied once to a freshly          *)
(* constructed AuditResults holding an arbitrary issue list.               *)
(***************************************************************************)
MaxIssues == 5

SampleIssues == {Issue("a.ts", 0, s, "Sample", <<>>, "") : s \in Severity}

IssueLists == UNION {[1..n -> SampleIssues] : n \in 0..MaxIssues}

ScorerInit ==
    /\ project = Clean
    /\ pc = "score"
    /\ iteration = 1
    /\ auditor \in {[AuditResults EXCEPT !.issues = l] : l \in IssueLists}
    /\ results = AuditResults
    /\ trace = <<>>
    /\ fixes = <<>>
    /\ runs = 0
    /\ fixCalls = 0
    /\ edited = FALSE
    /\ controller = "RUNNING"
    /\ converged_at = 0
    /\ lastRun = AuditResults
    /\ exitCode = -1

Score ==
    /\ pc = "score"
    /\ auditor' = _calculate_results(auditor)
    /\ pc' = "scored"
    /\ UNCHANGED <<project, iteration, results, trace, fixes, runs, fixCalls, edited,
                   controller, converged_at, lastRun, exitCode>>

ScorerNext == Score

SpecScorer == ScorerInit /\ [][ScorerNext]_vars

(***************************************************************************)
(* The auditor object alone: run_audit called again and again on one       *)
(* ClinicalAppAuditor, whose results object the caller may or may not      *)
(* replace between the calls.                                              *)
(***************************************************************************)
MaxCalls == 2

AuditorInit ==
    /\ project \in Projects
    /\ pc = "idle"
    /\ iteration = 1
    /\ auditor = AuditResults
    /\ results = AuditResults
    /\ trace = <<>>
    /\ fixes = <<>>
    /\ runs = 0
    /\ fixCalls = 0
    /\ edited = FALSE
    /\ controller = "RUNNING"
    /\ converged_at = 0
    /\ lastRun = AuditResults
    /\ exitCode = -1

\* results = auditor.run_audit()
CallRunAudit ==
    /\ pc = "idle"
    /\ runs < MaxCalls
    /\ auditor' = run_audit(auditor, project)
    /\ results' = auditor'
    /\ lastRun' = auditor'
    /\ runs' = runs + 1
    /\ trace' = Checks
    /\ UNCHANGED <<project, pc, iteration, fixes, fixCalls, edited, controller,
                   converged_at, exitCode>>

\* auditor.results = AuditResults()
ReplaceResults ==
    /\ pc = "idle"
    /\ runs > 0
    /\ auditor # AuditResults
    /\ auditor' = Reset(auditor)
    /\ UNCHANGED <<project, pc, iteration, results, trace, fixes, runs, fixCalls, edited,
                   controller, converged_at, lastRun, exitCode>>

AuditorNext ==
    \/ CallRunAudit
    \/ ReplaceResults

SpecAuditor == AuditorInit /\ [][AuditorNext]_vars

(***************************************************************************)
(* Properties                                                              *)
(***************************************************************************)
\* The execution order the specification gives for the checks.
ExecutionOrder ==
    <<"_check_typescript_compilation", "_check_missing_dependencies",
      "_check_database_schema_consistency", "_check_api_route_consistency",
      "_check_import_export_issues", "_check_component_structure",
      "_check_react_hooks_usage", "_check_type_safety",
      "_check_brand_color_compliance", "_check_configuration_files",
      "_check_environment_variables", "_check_code_quality", "_check_documentation">>

\* The position after a run has returned and before the results object is replaced.
AfterRun == pc \in {"test", "generate_fixes", "next"}

\* C1 (SpecScorer): the pass rate of a scored list is 100 when the list is empty and
\* otherwise max(0, (total - critical - high) / total * 100), counted on the list; it
\* lies in [0, 100] and is 100 exactly when the list has no CRITICAL and no HIGH issue.
PassRateFormula ==
    pc = "scored" =>
        LET total == Len(auditor.issues)
            critical == CountSeverity(auditor.issues, {"CRITICAL"})
            high == CountSeverity(auditor.issues, {"HIGH"})
            passing == IF total - critical - high > 0 THEN total - critical - high ELSE 0
            rate == auditor.pass_rate
        IN  /\ rate.den > 0
            /\ total = 0 => rate.num = 100 * rate.den
            /\ total > 0 => rate.num * total = passing * 100 * rate.den
            /\ 0 <= rate.num /\ rate.num <= 100 * rate.den
            /\ (rate.num = 100 * rate.den) <=> (critical + high = 0)

\* One CRITICAL and four LOW issues score 80.
PassRateWitness ==
    /\ pc = "scored"
    /\ Len(auditor.issues) = 5
    /\ CountSeverity(auditor.issues, {"CRITICAL"}) = 1
    /\ CountSeverity(auditor.issues, {"LOW"}) = 4
    /\ auditor.pass_rate.num = 80 * auditor.pass_rate.den

\* C2 (SpecAuditor): in the result of every run_audit call each severity count is the
\* number of issues of that severity in the result's list, so the four counts sum to
\* the length of the list.
CountsEqualIssueList ==
    runs >= 1 =>
        /\ results.critical_count = CountSeverity(results.issues, {"CRITICAL"})
        /\ results.high_count = CountSeverity(results.issues, {"HIGH"})
        /\ results.medium_count = CountSeverity(results.issues, {"MEDIUM"})
        /\ results.low_count = CountSeverity(results.issues, {"LOW"})
        /\ results.critical_count + results.high_count + results.medium_count
             + results.low_count = Len(results.issues)

\* C3: when no run reaches a pass rate of 100 the loop ends EXHAUSTED after exactly
\* max_iterations runs, run_audit is never called more often than that, and the
\* result kept is the last run's.
ExhaustedAfterMaxIterations ==
    /\ runs <= max_iterations
    /\ (pc \in {"after_loop", "done"} /\ converged_at = 0) =>
           /\ controller = "EXHAUSTED"
           /\ runs = max_iterations
           /\ results = lastRun
    /\ controller = "EXHAUSTED" => (converged_at = 0 /\ runs = max_iterations)

ExhaustedWitness ==
    /\ pc = "done"
    /\ controller = "EXHAUSTED"
    /\ runs = max_iterations
    /\ ~AtLeast100(results.pass_rate)

\* C4: when run k is the first with a pass rate >= 100 the loop ends CONVERGED after
\* exactly k runs: run_audit is not called again, and CONVERGED is never left.
ConvergedAfterK ==
    /\ [](/\ converged_at # 0 => (runs = converged_at /\ iteration = converged_at)
          /\ (converged_at # 0 /\ pc \in {"after_loop", "done"}) => controller = "CONVERGED"
          /\ controller = "CONVERGED" =>
                 (converged_at # 0 /\ pc \in {"after_loop", "done"}))
    /\ [][controller = "CONVERGED" => (controller' = "CONVERGED" /\ runs' = runs)]_vars

ConvergedWitness ==
    /\ pc = "done"
    /\ controller = "CONVERGED"
    /\ converged_at = 2
    /\ runs = 2

\* C5: the exit status is 0 exactly when the loop ended CONVERGED, and 1 when it
\* ended EXHAUSTED.
ExitCodeZeroIffConverged ==
    pc = "done" =>
        /\ (exitCode = 0) <=> (controller = "CONVERGED")
        /\ controller = "EXHAUSTED" => exitCode = 1

ExitCodeWitness ==
    /\ pc = "done"
    /\ exitCode = 0
    /\ controller = "CONVERGED"
    /\ runs > 1

\* C6: the result of every iteration is what run_audit yields on a newly constructed
\* AuditResults for the project as scanned: nothing of an earlier iteration is in it.
FreshResultEachIteration ==
    AfterRun => results = run_audit(AuditResults, project)

\* A second iteration without issues, after a first one that had some.
FreshResultWitness ==
    /\ pc = "test"
    /\ iteration = 2
    /\ edited
    /\ results.issues = <<>>

\* The issue sequences of the checks called names, each run on an empty list, one
\* after the other.
Concatenation(names, p) ==
    LET cat[k \in 0..Len(names)] ==
            IF k = 0 THEN <<>> ELSE cat[k - 1] \o RunCheck(names[k], <<>>, p)
    IN  cat[Len(names)]

\* C7: the list run_audit returns is the concatenation of the checks' issue sequences
\* in execution order, and each check only appends its own sequence to the list.
IssuesInExecutionOrder ==
    /\ [](AfterRun => results.issues = Concatenation(ExecutionOrder, project))
    /\ [][(pc = "run_audit" /\ pc' = "run_audit" /\ trace' # trace) =>
             /\ trace' = SubSeq(ExecutionOrder, 1, Len(trace) + 1)
             /\ auditor'.issues
                  = auditor.issues \o RunCheck(ExecutionOrder[Len(trace')], <<>>, project)]_vars

\* A run in which every check has emitted at least one issue.
EveryCheckEmitsWitness ==
    /\ pc = "test"
    /\ \A k \in 1..Len(ExecutionOrder) : RunCheck(ExecutionOrder[k], <<>>, project) # <<>>

ToolFailureYieldsOneCritical ==
    (/\ pc = "run_audit"
     /\ trace = <<"_check_typescript_compilation">>
     /\ \/ project.tsc.status = "cannot_run"
        \/ /\ project.tsc.status = "exit_nonzero"
           /\ \A i \in 1..Len(project.tsc.stderr) : ~PatternMatches(project.tsc.stderr[i]))
    => /\ Len(auditor.issues) = 1
       /\ auditor.issues[1].severity = "CRITICAL"

\* The issues of a list that name file_path, in one of the categories.
IssuesAbout(issues, file_path, categories) ==
    SelectSeq(issues, LAMBDA x : x.file_path = file_path /\ x.category \in categories)

\* The one issue a file that is not valid JSON yields: of the given severity, its
\* description ending with the parse error's text.
OneParseIssue(issues, severity, err) ==
    /\ Len(issues) = 1
    /\ issues[1].severity = severity
    /\ Len(issues[1].description) = 4 + Len(err)
    /\ SubSeq(issues[1].description, 1, 3) = <<"Failed", "to", "parse">>
    /\ SubSeq(issues[1].description, 5, 4 + Len(err)) = err

\* C10 as stated: a package.json or tsconfig.json that is not valid JSON yields one
\* HIGH issue embedding the parse error, nothing else about the file, and the other
\* checks run.
MalformedFileYieldsHigh ==
    AfterRun =>
        /\ project.pkg.state = "malformed" =>
               OneParseIssue(IssuesAbout(results.issues, "package.json",
                                         {"Dependencies", "Configuration"}),
                             "HIGH", project.pkg.err)
        /\ project.tsconfig.state = "malformed" =>
               OneParseIssue(IssuesAbout(results.issues, "tsconfig.json", {"Configuration"}),
                             "HIGH", project.tsconfig.err)
        /\ trace = ExecutionOrder

\* C10 amended: the issue is CRITICAL for package.json and HIGH for tsconfig.json.
MalformedFileYieldsOneIssue ==
    AfterRun =>
        /\ project.pkg.state = "malformed" =>
               OneParseIssue(IssuesAbout(results.issues, "package.json",
                                         {"Dependencies", "Configuration"}),
                             "CRITICAL", project.pkg.err)
        /\ project.tsconfig.state = "malformed" =>
               OneParseIssue(IssuesAbout(results.issues, "tsconfig.json", {"Configuration"}),
                             "HIGH", project.tsconfig.err)
        /\ trace = ExecutionOrder

\* A finished run on a project whose package.json is not valid JSON and whose other
\* artifacts yield issues of later checks.
MalformedFileWitness ==
    /\ pc = "test"
    /\ project.pkg.state = "malformed"
    /\ Len(results.issues) > 1
    /\ \E i \in 1..Len(results.issues) : results.issues[i].category = "Documentation"

\* The issues of a list that name file_path, whatever the check that recorded them.
IssuesNaming(issues, file_path) == SelectSeq(issues, LAMBDA x : x.file_path = file_path)

\* The issues of a list in one category.
IssuesIn(issues, category) == SelectSeq(issues, LAMBDA x : x.category = category)

\* C11: an absent package.json yields exactly one issue naming it in the whole run,
\* a CRITICAL one of the dependency check; a parsed package.json yields one HIGH
\* dependency issue for each required entry that is in neither dependencies nor
\* devDependencies, none for the other entries, and no CRITICAL dependency issue.
ManifestCheck ==
    AfterRun =>
        LET manifest == IssuesNaming(results.issues, "package.json")
            found == IssuesIn(results.issues, "Dependencies")
            declared == project.pkg.dependencies \cup project.pkg.devDependencies
            about(dep) == SelectSeq(found, LAMBDA x : x.description[Len(x.description)] = dep)
        IN  /\ project.pkg.state = "absent" =>
                   /\ Len(manifest) = 1
                   /\ manifest[1].severity = "CRITICAL"
                   /\ manifest[1].category = "Dependencies"
            /\ project.pkg.state = "parsed" =>
                   /\ \A k \in 1..Len(required_deps) :
                          Len(about(required_deps[k]))
                            = IF required_deps[k] \in declared THEN 0 ELSE 1
                   /\ Len(found) = Cardinality(AllDeps \ declared)
                   /\ \A i \in 1..Len(found) :
                          found[i].severity = "HIGH" /\ found[i].file_path = "package.json"

\* A finished run on a parsed package.json with one required entry in dependencies,
\* one in devDependencies only, and others in neither.
ManifestWitness ==
    /\ pc = "test"
    /\ project.pkg.state = "parsed"
    /\ project.pkg.devDependencies \ project.pkg.dependencies # {}
    /\ project.pkg.dependencies # {}
    /\ Len(IssuesIn(results.issues, "Dependencies")) >= 2

\* The distinct files the checks of a run open on project p.
FilesVisited(p) ==
    {f \in DOMAIN p.files : Exists(p, f)}
    \cup (IF p.pkg.state # "absent" THEN {"package.json"} ELSE {})
    \cup (IF p.tsconfig.state # "absent" THEN {"tsconfig.json"} ELSE {})

\* C12: the result run_audit returns has total_files_scanned equal to the number of
\* distinct files the checks visited during the run.
FilesScannedCountsVisitedFiles ==
    AfterRun => results.total_files_scanned = Cardinality(FilesVisited(project))

\* The five candidates of the specification for a resolved import path: the path,
\* the path with .ts and with .tsx appended, and index.ts and index.tsx below it.
AppendedCandidates(resolved_path) ==
    {resolved_path,
     [resolved_path EXCEPT !.name = @ \o <<".ts">>],
     [resolved_path EXCEPT !.name = @ \o <<".tsx">>],
     [resolved_path EXCEPT !.name = @ \o <<"/index.ts">>],
     [resolved_path EXCEPT !.name = @ \o <<"/index.tsx">>]}

\* C13: for every relative import in a scanned file, the run reports a HIGH import
\* issue at the import's line if and only if none of the five candidates exists.
ImportReportedIffNoCandidate ==
    AfterRun =>
        \A f \in DOMAIN project.files :
            project.files[f].state = "read" =>
                \A i \in 1..Len(project.files[f].lines) :
                    LET import == project.files[f].lines[i].import
                        reported ==
                            \E k \in 1..Len(results.issues) :
                                /\ results.issues[k].category = "Imports"
                                /\ results.issues[k].severity = "HIGH"
                                /\ results.issues[k].file_path = f
                                /\ results.issues[k].line_number = i
                    IN  import.prefix \in {"./", "../"} =>
                            (reported <=>
                                AppendedCandidates(Resolve(f, import)) \cap project.existing
                                  = {})

\* The endpoints the routes file declares whose path is outside the /api/ prefix.
EndpointsOutsidePrefix(p) ==
    SelectSeq(p.files[RoutesTs].lines,
              LAMBDA l : l.route # <<>> /\ ~StartsWithApi(l.route[3]))

\* C14: the run records exactly one MEDIUM route issue for each endpoint declared in
\* the routes file whose path does not start with /api/ and none for the others, so
\* the MEDIUM route issues are as many as the declared endpoints outside the prefix.
OneIssuePerEndpointOutsidePrefix ==
    (AfterRun /\ project.files[RoutesTs].state = "read") =>
        LET found == IssuesIn(results.issues, "API Routes")
            outside == EndpointsOutsidePrefix(project)
        IN  /\ Len(found) = Len(outside)
            /\ \A i \in 1..Len(found) : found[i].severity = "MEDIUM"
            /\ \A i \in 1..Len(outside) :
                   Cardinality({k \in 1..Len(found) :
                                  found[k].description[2] = PathStr(outside[i].route[3])})
                     = Cardinality({j \in 1..Len(outside) :
                                      outside[j].route[3] = outside[i].route[3]})

\* The advisory strings of a list built from the missing-dependency template.
DependencyAdvisories(list) ==
    SelectSeq(list, LAMBDA f : Len(f) >= 4
                               /\ SubSeq(f, 1, 4) = <<"#", "Fix", "missing", "dependency:">>)

\* C15: generate_fixes yields, for the CRITICAL and HIGH issues of the iteration in
\* severity-first and otherwise original order, exactly one templated string for each
\* issue of category Dependencies whose description contains Missing.
DependencyIssueYieldsAdvisory ==
    pc = "next" =>
        LET missing ==
                SelectSeq(sorted_issues(results.issues),
                          LAMBDA x : /\ x.severity \in {"CRITICAL", "HIGH"}
                                     /\ x.category = "Dependencies"
                                     /\ Contains(x.description, "Missing"))
            advisories == DependencyAdvisories(fixes)
        IN  /\ Len(advisories) = Len(missing)
            /\ \A i \in 1..Len(advisories) :
                   advisories[i]
                     = <<"#", "Fix", "missing", "dependency:">> \o missing[i].description

\* C16: generate_fixes is called only in an iteration after which the controller
\* stays RUNNING: not in the iteration that converges, and not in iteration
\* max_iterations, after which the loop ends EXHAUSTED.
FixesOnlyWhileRunning ==
    /\ pc \in {"generate_fixes", "next"} =>
           (iteration < max_iterations /\ ~AtLeast100(results.pass_rate))
    /\ controller = "CONVERGED" => fixCalls = runs - 1
    /\ controller = "EXHAUSTED" => fixCalls = max_iterations - 1

====
